---- MODULE Spec2Model ----
(***************************************************************************)
(* BitFieldEmitter (packages/bits/src/classes/BitFieldEmitter.ts): an      *)
(* event emitter whose event codes are bit fields.  The dispatcher keeps   *)
(* one insertion-ordered Set of handlers per bit position; on / remove /   *)
(* removeGroup / once change the table, emit walks it.  Handlers are user  *)
(* code: while one runs it may call the dispatcher again, return or throw. *)
(***************************************************************************)
EXTENDS Integers, Sequences, FiniteSets, TLC

\* ---------------------------------------------------------------- bounds
SmallBits == 2          \* maxBits of the small dispatcher
WideBits == 33          \* maxBits of a dispatcher wider than the shift width
NumHandlers == 2        \* distinct user handler functions
MaxCode == 4            \* codes range over -1 .. MaxCode
NumData == 2            \* distinct payloads
MaxOps == 3             \* dispatcher calls in one run of the small dispatcher
WideOps == 2            \* dispatcher calls in one run of the wide dispatcher
MaxHinted == 1          \* calls in one run that pass an explicit bitsHint
MaxOnce == 2            \* one-shot adapters created in one run
MaxDepth == 2           \* nesting depth of emit calls
LiveOps == 2            \* dispatcher calls of the caller in a run of SpecLive
BusyOps == 2            \* dispatcher calls in a run that starts with two handlers

\* JavaScript's << and & work on 32-bit integers; the shift count is taken
\* modulo 32 (line 50: code & (1 << i), line 153: code & (1 << bit)).
WordBits == 32

Data == 1 .. NumData
Handlers == 1 .. NumHandlers

\* A handler identity: a user function (once = 0) or the n-th adapter that
\* once() built around the user function fn (line 130).
Fn(h) == [fn |-> h, once |-> 0]
Adapter(h, n) == [fn |-> h, once |-> n]
NoHandler == [fn |-> 0, once |-> 0]

VARIABLES
    maxBits,     \* public maxBits (line 20)
    handlers,    \* private handlers: one insertion-ordered Set per bit (line 18)
    closures,    \* closures[n]: what the n-th onceHandler captured, and how often it ran
    stack,       \* emit calls in progress, innermost first; each is suspended in a handler
    credit,      \* dispatcher calls the run may still make
    hinted,      \* calls with an explicit bitsHint the run may still make
    subs,        \* subs[h]: how the user function h came to be registered
    last         \* the dispatcher call that ended last, if nothing was called since

vars == <<maxBits, handlers, closures, stack, credit, hinted, subs, last>>

\* The explicit bitsHint values tried for a dispatcher of capacity m: below,
\* one below and above the capacity.  The default is m itself.
ExplicitHints(m) == {1, m - 1, m + 1}
Hints == {maxBits} \cup (IF hinted > 0 THEN ExplicitHints(maxBits) ELSE {})

\* The codes tried: 0 .. MaxCode and the negative code -1 (all 32 bits set).
Codes == (-1) .. MaxCode

\* ------------------------------------------------------- bit arithmetic
\* code & (1 << i) is non-zero: bit (i mod 32) of the 32-bit two's complement
\* value of code is set; bit 31 is the sign bit.
TestBit(code, i) ==
    LET k == i % WordBits
    IN  IF k = WordBits - 1 THEN code < 0 ELSE (code \div (2 ^ k)) % 2 = 1

\* c1 & c2 is non-zero.
Overlap(c1, c2) == \E k \in 0 .. WordBits - 1 : TestBit(c1, k) /\ TestBit(c2, k)

\* ---------------------------------------------- Set<BitFieldEventHandler>
SetHas(s, h) == \E p \in 1 .. Len(s) : s[p] = h
\* Mutant: an array push, which adds an entry that is there already.
SetAddAgain(s, h) == Append(s, h)
\* Mutant: a new entry is put before the others.
SetAddFront(s, h) == IF SetHas(s, h) THEN s ELSE <<h>> \o s
SetAdd(s, h) == IF SetHas(s, h) THEN s ELSE Append(s, h)
\* Mutant: delete by position, where the position of an absent entry is taken
\* for the last one (splice(indexOf(h), 1)).
SetDeleteSplice(s, h) ==
    IF SetHas(s, h) THEN SelectSeq(s, LAMBDA x : x # h)
    ELSE IF s = <<>> THEN s ELSE SubSeq(s, 1, Len(s) - 1)
\* Mutant: delete also the onceHandlers built around the function.
SetDeleteWrapping(s, h) == SelectSeq(s, LAMBDA x : x.fn # h.fn)
SetDelete(s, h) == SelectSeq(s, LAMBDA x : x # h)
SetOf(s) == {s[p] : p \in 1 .. Len(s)}

\* ------------------------------------------------------------------- on
RECURSIVE OnFrom(_, _, _, _, _)
OnFrom(tab, code, handler, maxBitsHint, i) ==
    IF i >= maxBitsHint THEN [tab |-> tab, err |-> "none"]
    ELSE IF TestBit(code, i)
         THEN IF i >= maxBits
              THEN [tab |-> tab, err |-> "TypeError"]    \* this.handlers[i] is undefined
              ELSE OnFrom([tab EXCEPT ![i] = SetAdd(@, handler)],
                          code, handler, maxBitsHint, i + 1)
         ELSE OnFrom(tab, code, handler, maxBitsHint, i + 1)

\* Mutant: the loop starts at bit 1.
onFromBitOne(tab, code, handler, maxBitsHint) ==
    OnFrom(tab, code, handler, maxBitsHint, 1)
on(tab, code, handler, maxBitsHint) == OnFrom(tab, code, handler, maxBitsHint, 0)

\* --------------------------------------------------------------- remove
RECURSIVE RemoveFrom(_, _, _, _)
RemoveFrom(tab, handler, maxBitsHint, bit) ==
    IF bit >= maxBitsHint THEN [tab |-> tab, err |-> "none"]
    ELSE IF bit >= maxBits
         THEN [tab |-> tab, err |-> "TypeError"]         \* this.handlers[bit] is undefined
         ELSE RemoveFrom([tab EXCEPT ![bit] = SetDelete(@, handler)],
                         handler, maxBitsHint, bit + 1)

\* Mutant: the loop starts at bit 1.
removeFromBitOne(tab, handler, maxBitsHint) ==
    RemoveFrom(tab, handler, maxBitsHint, 1)
\* Mutant: the loop runs over every slot, whatever the hint.
removeFromEverySlot(tab, handler, maxBitsHint) ==
    RemoveFrom(tab, handler, maxBits, 0)
remove(tab, handler, maxBitsHint) == RemoveFrom(tab, handler, maxBitsHint, 0)

\* ---------------------------------------------------------- removeGroup
\* The inner loop: for (const handler of handlers) this.handlers[bit].delete(handler)
\* Mutant: only the first handler of the collection is deleted.
DeleteFirstOnly(s, hs) ==
    IF hs = <<>> THEN s ELSE SetDelete(s, Head(hs))
RECURSIVE DeleteEach(_, _)
DeleteEach(s, hs) ==
    IF hs = <<>> THEN s ELSE DeleteEach(SetDelete(s, Head(hs)), Tail(hs))

\* hs is what the iterable yields on its next traversal; an iterable that can
\* be traversed once only (reiterable = FALSE) yields nothing afterwards.
RECURSIVE GroupFrom(_, _, _, _, _)
GroupFrom(tab, hs, maxBitsHint, reiterable, bit) ==
    IF bit >= maxBitsHint THEN [tab |-> tab, err |-> "none"]
    ELSE IF hs = <<>>
         THEN GroupFrom(tab, hs, maxBitsHint, reiterable, bit + 1)
    ELSE IF bit >= maxBits
         THEN [tab |-> tab, err |-> "TypeError"]         \* this.handlers[bit] is undefined
         ELSE GroupFrom([tab EXCEPT ![bit] = DeleteEach(@, hs)],
                        IF reiterable THEN hs ELSE <<>>,
                        maxBitsHint, reiterable, bit + 1)

removeGroup(tab, hs, maxBitsHint, reiterable) ==
    GroupFrom(tab, hs, maxBitsHint, reiterable, 0)

\* ----------------------------------------------------------------- emit
\* The arguments a handler is invoked with (line 159: handler(data, code)).
Args(f) == [data |-> f.data, code |-> f.code]

\* The two loops of emit from position (bit, idx) of the live table on: idx
\* entries of handlers[bit] have been taken from its iterator.  Ends at the
\* next handler to invoke, at the return, or at a TypeError.
\* Mutant: the loops walk the table as it was when the emit began.
RECURSIVE ScanSnapshot(_, _, _, _)
ScanSnapshot(tab, f, bit, idx) ==
    IF bit >= f.hint THEN [end |-> "return", bit |-> bit, idx |-> idx, h |-> NoHandler]
    ELSE IF ~TestBit(f.code, bit) THEN ScanSnapshot(tab, f, bit + 1, 0)
    ELSE IF bit >= maxBits
         THEN [end |-> "TypeError", bit |-> bit, idx |-> idx, h |-> NoHandler]
    ELSE IF idx >= Len(f.start[bit]) THEN ScanSnapshot(tab, f, bit + 1, 0)
    ELSE IF f.start[bit][idx + 1] \in f.called THEN ScanSnapshot(tab, f, bit, idx + 1)
    ELSE [end |-> "invoke", bit |-> bit, idx |-> idx + 1, h |-> f.start[bit][idx + 1]]
\* Mutant: no check of the called set.
RECURSIVE ScanNoDedup(_, _, _, _)
ScanNoDedup(tab, f, bit, idx) ==
    IF bit >= f.hint THEN [end |-> "return", bit |-> bit, idx |-> idx, h |-> NoHandler]
    ELSE IF ~TestBit(f.code, bit) THEN ScanNoDedup(tab, f, bit + 1, 0)
    ELSE IF bit >= maxBits
         THEN [end |-> "TypeError", bit |-> bit, idx |-> idx, h |-> NoHandler]
    ELSE IF idx >= Len(tab[bit]) THEN ScanNoDedup(tab, f, bit + 1, 0)
    ELSE [end |-> "invoke", bit |-> bit, idx |-> idx + 1, h |-> tab[bit][idx + 1]]
RECURSIVE Scan(_, _, _, _)
Scan(tab, f, bit, idx) ==
    IF bit >= f.hint THEN [end |-> "return", bit |-> bit, idx |-> idx, h |-> NoHandler]
    ELSE IF ~TestBit(f.code, bit) THEN Scan(tab, f, bit + 1, 0)
    ELSE IF bit >= maxBits
         THEN [end |-> "TypeError", bit |-> bit, idx |-> idx, h |-> NoHandler]
    ELSE IF idx >= Len(tab[bit]) THEN Scan(tab, f, bit + 1, 0)
    ELSE IF tab[bit][idx + 1] \in f.called THEN Scan(tab, f, bit, idx + 1)
    ELSE [end |-> "invoke", bit |-> bit, idx |-> idx + 1, h |-> tab[bit][idx + 1]]

\* A Set iterator keeps its place when entries are deleted: of the idx entries
\* already taken from old, those that survive in new are still behind it.
Survivors(old, new, idx) ==
    Cardinality({p \in 1 .. idx : SetHas(new, old[p])})

\* h is in no slot of tab.
Absent(tab, h) == \A i \in 0 .. maxBits - 1 : ~SetHas(tab[i], h)

\* What the handler an emit is running has called on the dispatcher so far:
\* nothing, one call (with the bit the scan stood on, the number of handlers
\* invoked up to then, and whether h was in no slot), or several calls.
NoCall ==
    [op |-> "none", code |-> 0, h |-> NoHandler, hint |-> 0, err |-> "none",
     bit |-> 0, seen |-> 0, fresh |-> FALSE]
Several == [NoCall EXCEPT !.op = "several"]
Note(stk, name, code, h, hint, err) ==
    IF stk = <<>> THEN stk
    ELSE [stk EXCEPT ![1].during =
             IF @.op = "none"
             THEN [op |-> name, code |-> code, h |-> h, hint |-> hint, err |-> err,
                   bit |-> stk[1].bit, seen |-> Len(stk[1].invoked),
                   fresh |-> Absent(handlers, h)]
             ELSE Several]

\* The emit calls in progress after the table changed from old to new.
Adjust(stk, old, new, byCaller) ==
    [k \in 1 .. Len(stk) |->
        [stk[k] EXCEPT !.idx = Survivors(old[stk[k].bit], new[stk[k].bit], @),
                       !.dirty = @ \/ byCaller]]

\* Mutant: one called set for the dispatcher, shared by the emit calls.
NewFrameSharingCalled(code, data, hint) ==
    [code |-> code, data |-> data, hint |-> hint, bit |-> 0, idx |-> 0,
     called |-> UNION {stack[k].called \cup {stack[k].running} : k \in 1 .. Len(stack)},
     running |-> NoHandler, invoked |-> <<>>,
     start |-> handlers, dirty |-> FALSE, during |-> NoCall]
\* The locals of an emit call at its start (line 150: called = new Set()).
NewFrame(code, data, hint) ==
    [code |-> code, data |-> data, hint |-> hint, bit |-> 0, idx |-> 0,
     called |-> {}, running |-> NoHandler, invoked |-> <<>>,
     start |-> handlers, dirty |-> FALSE, during |-> NoCall]

\* ----------------------------------------------------- what was observed
\* The record of a call that ended: its arguments, the table it started on,
\* how it ended and, for emit, the handlers it invoked with their arguments.
Blank ==
    [op |-> "new", code |-> 0, data |-> 0, h |-> NoHandler, hs |-> <<>>, hint |-> 0,
     err |-> "none", ret |-> "nothing", invoked |-> <<>>, start |-> <<>>,
     dirty |-> FALSE, nested |-> FALSE, during |-> NoCall]

\* What a call hands back to its caller: every method ends in "return this"
\* (lines 55, 89, 114, 138, 165), which a call that throws never reaches.
\* Mutant: the method ends without a return statement.
ReturnsUndefined(err) == IF err = "none" THEN "undefined" ELSE "nothing"
ReturnsThis(err) == IF err = "none" THEN "this" ELSE "nothing"

Ended(name, code, h, hs, hint, err) ==
    [Blank EXCEPT !.op = name, !.code = code, !.h = h, !.hs = hs, !.hint = hint,
                  !.err = err, !.ret = ReturnsThis(err), !.start = handlers,
                  !.nested = (stack # <<>>)]

EmitEnded(f, stk, err) ==
    [Blank EXCEPT !.op = "emit", !.code = f.code, !.data = f.data, !.hint = f.hint,
                  !.err = err, !.ret = ReturnsThis(err), !.invoked = f.invoked,
                  !.start = f.start, !.dirty = f.dirty, !.nested = (stk # <<>>),
                  !.during = f.during]

\* subs[h] follows the calls that name the function h.  st: registered by
\* exactly one on(code, h) with the default bitsHint ("one"), not at all
\* ("none"; after remove(h) with the default bitsHint, "removed", code being
\* the code it was registered with), or in any other way ("many").  off: remove(h)
\* with the default bitsHint was called and on(.., h) was not called since.
NoSub == [st |-> "none", code |-> 0, off |-> FALSE]
Many(s) == [st |-> "many", code |-> 0, off |-> s.off]
Unsubscribed(s) == s.st \in {"none", "removed"}
SubOn(s, code, hint, err) ==
    IF Unsubscribed(s) /\ hint = maxBits /\ err = "none"
    THEN [st |-> "one", code |-> code, off |-> FALSE]
    ELSE [st |-> "many", code |-> 0, off |-> FALSE]
SubOnce(s) == Many(s)
SubRemove(s, hint) ==
    IF hint = maxBits
    THEN [st |-> "removed", code |-> IF s.st = "one" THEN s.code ELSE 0, off |-> TRUE]
    ELSE IF hint > maxBits \/ Unsubscribed(s) THEN [NoSub EXCEPT !.off = s.off]
    ELSE Many(s)
SubRemoveGroup(s, hint, reiterable) ==
    IF (reiterable /\ hint >= maxBits) \/ Unsubscribed(s)
    THEN [NoSub EXCEPT !.off = s.off]
    ELSE Many(s)

\* closures[n] counts the runs of the n-th onceHandler: fired (begun),
\* returned (one has returned), irregular (one threw, or one began while
\* another was still running).
Fired(cl, h) ==
    IF h.once = 0 THEN cl
    ELSE [cl EXCEPT ![h.once].fired = @ + 1,
                    ![h.once].irregular = @ \/ (cl[h.once].fired > 0
                                                /\ ~cl[h.once].returned)]
Returned(cl, h) ==
    IF h.once = 0 THEN cl ELSE [cl EXCEPT ![h.once].returned = TRUE]
Threw(cl, h) ==
    IF h.once = 0 THEN cl ELSE [cl EXCEPT ![h.once].irregular = TRUE]

\* emit f goes on over table tab, inside the calls stk, to its next handler
\* or to its end; cl is closures so far.
Deliver(tab, stk, f, cl) ==
    LET r == Scan(tab, f, f.bit, f.idx)
    IN  /\ handlers' = tab
        /\ IF r.end = "invoke"
           THEN /\ stack' = <<[f EXCEPT !.bit = r.bit, !.idx = r.idx, !.running = r.h,
                                        !.invoked = Append(@, [h |-> r.h, args |-> Args(f)])]>>
                             \o stk
                /\ closures' = Fired(cl, r.h)
                /\ last' = [Blank EXCEPT !.op = "handler"]
           ELSE /\ stack' = stk
                /\ closures' = cl
                /\ last' = EmitEnded(f, stk, IF r.end = "return" THEN "none" ELSE r.end)

\* ------------------------------------------------------------- the calls
Spend(hint) ==
    /\ credit > 0
    /\ hint \in Hints
    /\ credit' = credit - 1
    /\ hinted' = IF hint = maxBits THEN hinted ELSE hinted - 1

Start(m, ops, hints) ==
    /\ maxBits = m
    /\ handlers = [i \in 0 .. m - 1 |-> <<>>]
    /\ closures = <<>>
    /\ stack = <<>>
    /\ credit = ops
    /\ hinted = hints
    /\ subs = [h \in Handlers |-> NoSub]
    /\ last = Blank

Init == Start(SmallBits, MaxOps, MaxHinted)

InitWide == Start(WideBits, WideOps, MaxHinted)

CallOn(code, h, hint) ==
    /\ Spend(hint)
    /\ LET r == on(handlers, code, Fn(h), hint)
       IN  /\ handlers' = r.tab
           /\ stack' = Note(Adjust(stack, handlers, r.tab, TRUE),
                            "on", code, Fn(h), hint, r.err)
           /\ last' = Ended("on", code, Fn(h), <<>>, hint, r.err)
           /\ subs' = [subs EXCEPT ![h] = SubOn(@, code, hint, r.err)]
    /\ UNCHANGED <<maxBits, closures>>

CallRemove(h, hint) ==
    /\ Spend(hint)
    /\ LET r == remove(handlers, Fn(h), hint)
       IN  /\ handlers' = r.tab
           /\ stack' = Note(Adjust(stack, handlers, r.tab, TRUE),
                            "remove", 0, Fn(h), hint, r.err)
           /\ last' = Ended("remove", 0, Fn(h), <<>>, hint, r.err)
    /\ subs' = [subs EXCEPT ![h] = SubRemove(@, hint)]
    /\ UNCHANGED <<maxBits, closures>>

\* The collections handed to removeGroup: none, one or two handlers.
Groups == {<<>>} \cup {<<Fn(h)>> : h \in Handlers}
            \cup {<<Fn(g), Fn(h)>> : g, h \in Handlers}

CallRemoveGroup(hs, hint, reiterable) ==
    /\ Spend(hint)
    /\ LET r == removeGroup(handlers, hs, hint, reiterable)
       IN  /\ handlers' = r.tab
           /\ stack' = Note(Adjust(stack, handlers, r.tab, TRUE),
                            "removeGroup", 0, NoHandler, hint, r.err)
           /\ last' = Ended(IF reiterable THEN "removeGroup" ELSE "removeGroupOnce",
                            0, NoHandler, hs, hint, r.err)
    /\ subs' = [h \in Handlers |->
                  IF SetHas(hs, Fn(h)) THEN SubRemoveGroup(subs[h], hint, reiterable)
                  ELSE subs[h]]
    /\ UNCHANGED <<maxBits, closures>>

CallOnce(code, h, hint) ==
    /\ Spend(hint)
    /\ Len(closures) < MaxOnce
    /\ LET onceHandler == Adapter(h, Len(closures) + 1)
           r == on(handlers, code, onceHandler, hint)
       IN  /\ closures' = Append(closures, [handler |-> h, maxBitsHint |-> hint,
                                            code |-> code, err |-> r.err,
                                            fired |-> 0, returned |-> FALSE,
                                            irregular |-> FALSE])
           /\ handlers' = r.tab
           /\ stack' = Note(Adjust(stack, handlers, r.tab, TRUE),
                            "once", code, onceHandler, hint, r.err)
           /\ last' = Ended("once", code, onceHandler, <<>>, hint, r.err)
    /\ subs' = [subs EXCEPT ![h] = SubOnce(@)]
    /\ UNCHANGED maxBits

CallEmit(code, data, hint) ==
    /\ Spend(hint)
    /\ Len(stack) < MaxDepth
    /\ Deliver(handlers, Note(stack, "emit", code, NoHandler, hint, "none"),
               NewFrame(code, data, hint), closures)
    /\ UNCHANGED <<maxBits, subs>>

\* Mutant: the onceHandler removes the handler it wraps instead of itself.
UnsubscribeWrapped(tab, h) ==
    IF h.once > 0
    THEN remove(tab, Fn(h.fn), closures[h.once].maxBitsHint)
    ELSE [tab |-> tab, err |-> "none"]
\* What follows the handler's return inside h: this.remove(onceHandler,
\* maxBitsHint) when h is a onceHandler, nothing when h is a user function.
Unsubscribe(tab, h) ==
    IF h.once > 0
    THEN remove(tab, h, closures[h.once].maxBitsHint)
    ELSE [tab |-> tab, err |-> "none"]

\* The running handler returns.  A onceHandler then removes itself (line 133),
\* and emit records the handler as called and goes on (line 160).  The removal
\* changes the table under the emit calls this one is nested in.
Return ==
    /\ stack # <<>>
    /\ LET h == Head(stack).running
           r == Unsubscribe(handlers, h)
           f == Head(Adjust(stack, handlers, r.tab, FALSE))
           stk == Adjust(Tail(stack), handlers, r.tab, r.tab # handlers)
       IN  IF r.err # "none"
           THEN /\ handlers' = r.tab
                /\ stack' = stk
                /\ closures' = Returned(closures, h)
                /\ last' = EmitEnded(f, stk, r.err)
           ELSE Deliver(r.tab, stk,
                        [f EXCEPT !.called = @ \cup {h}, !.running = NoHandler],
                        Returned(closures, h))
    /\ UNCHANGED <<maxBits, credit, hinted, subs>>

\* The running handler throws: nothing in onceHandler or emit catches it.
Throw ==
    /\ stack # <<>>
    /\ stack' = Tail(stack)
    /\ closures' = Threw(closures, Head(stack).running)
    /\ last' = EmitEnded(Head(stack), Tail(stack), "thrown")
    /\ UNCHANGED <<maxBits, handlers, credit, hinted, subs>>

Next ==
    \/ \E c \in Codes, h \in Handlers, k \in Hints : CallOn(c, h, k)
    \/ \E h \in Handlers, k \in Hints : CallRemove(h, k)
    \/ \E hs \in Groups, k \in Hints, re \in BOOLEAN : CallRemoveGroup(hs, k, re)
    \/ \E c \in Codes, h \in Handlers, k \in Hints : CallOnce(c, h, k)
    \/ \E c \in Codes, d \in Data, k \in Hints : CallEmit(c, d, k)
    \/ Return
    \/ Throw

Spec == Init /\ [][Next]_vars

SpecWide == InitWide /\ [][Next]_vars

\* ------------------------------------------- a dispatcher with two handlers
\* The dispatcher after on(c1, h1).on(c2, h2), for every pair of codes.
AfterTwo(c1, c2) ==
    LET one == on([i \in 0 .. SmallBits - 1 |-> <<>>], c1, Fn(1), SmallBits).tab
        two == on(one, c2, Fn(2), SmallBits).tab
    IN  /\ handlers = two
        /\ subs = [h \in Handlers |->
                      IF h = 1 THEN [st |-> "one", code |-> c1, off |-> FALSE]
                      ELSE IF h = 2 THEN [st |-> "one", code |-> c2, off |-> FALSE]
                      ELSE NoSub]
        /\ last = [Blank EXCEPT !.op = "on", !.code = c2, !.h = Fn(2),
                                 !.hint = SmallBits, !.ret = "this", !.start = one]

InitBusy ==
    /\ maxBits = SmallBits
    /\ \E c1, c2 \in Codes : AfterTwo(c1, c2)
    /\ closures = <<>>
    /\ stack = <<>>
    /\ credit = BusyOps
    /\ hinted = MaxHinted

SpecBusy == InitBusy /\ [][Next]_vars

\* ------------------------------------------ an emit that may go on forever
\* A handler may call the dispatcher any number of times.  SpecLive follows an
\* emit without counting those calls and without a record of what it invoked,
\* so that a run that repeats is seen to repeat.  A onceHandler that is in no
\* slot and not running is out of reach for good (only once() holds it, and
\* adds it when it builds it): its number is given to the next onceHandler
\* built, and the called sets forget it.
Alive(tab, stk, n) ==
    \/ \E i \in 0 .. maxBits - 1 : \E p \in 1 .. Len(tab[i]) : tab[i][p].once = n
    \/ \E k \in 1 .. Len(stk) : stk[k].running.once = n

Forget(tab, stk) ==
    [k \in 1 .. Len(stk) |->
        [stk[k] EXCEPT !.called = {x \in @ : x.once = 0 \/ Alive(tab, stk, x.once)}]]

\* emit f goes on to its next handler or to its end, as Deliver does.
DeliverLive(tab, stk, f) ==
    LET r == Scan(tab, f, f.bit, f.idx)
    IN  /\ handlers' = tab
        /\ IF r.end = "invoke"
           THEN /\ stack' = Forget(tab, <<[f EXCEPT !.bit = r.bit, !.idx = r.idx,
                                                     !.running = r.h]>> \o stk)
                /\ last' = [Blank EXCEPT !.op = "handler"]
           ELSE /\ stack' = Forget(tab, stk)
                /\ last' = EmitEnded(f, stk, IF r.end = "return" THEN "none" ELSE r.end)

EmitLive(code, data) ==
    /\ Spend(maxBits)
    /\ Len(stack) < MaxDepth
    /\ DeliverLive(handlers, Note(stack, "emit", code, NoHandler, maxBits, "none"),
                   NewFrame(code, data, maxBits))
    /\ UNCHANGED <<maxBits, closures, subs>>

\* The function running under a onceHandler calls once(code, h) for itself
\* with the arguments it was first registered with (lines 125-139).
Rearm ==
    /\ stack # <<>>
    /\ Head(stack).running.once > 0
    /\ LET c == closures[Head(stack).running.once]
           free == {n \in 1 .. MaxOnce :
                        n <= Len(closures) + 1 /\ ~Alive(handlers, stack, n)}
       IN  /\ free # {}
           /\ LET n == CHOOSE x \in free : \A y \in free : x <= y
                  onceHandler == Adapter(c.handler, n)
                  r == on(handlers, c.code, onceHandler, c.maxBitsHint)
                  made == [c EXCEPT !.err = r.err]
              IN  /\ closures' = IF n > Len(closures) THEN Append(closures, made)
                                 ELSE [closures EXCEPT ![n] = made]
                  /\ handlers' = r.tab
                  /\ stack' = Forget(r.tab, Adjust(stack, handlers, r.tab, TRUE))
                  /\ last' = Ended("once", c.code, onceHandler, <<>>, c.maxBitsHint, r.err)
    /\ UNCHANGED <<maxBits, credit, hinted, subs>>

\* The running handler returns, as in Return.
ReturnLive ==
    /\ stack # <<>>
    /\ LET h == Head(stack).running
           r == Unsubscribe(handlers, h)
           f == Head(Adjust(stack, handlers, r.tab, FALSE))
           stk == Adjust(Tail(stack), handlers, r.tab, r.tab # handlers)
       IN  IF r.err # "none"
           THEN /\ handlers' = r.tab
                /\ stack' = Forget(r.tab, stk)
                /\ last' = EmitEnded(f, stk, r.err)
           ELSE DeliverLive(r.tab, stk,
                            [f EXCEPT !.called = @ \cup {h}, !.running = NoHandler])
    /\ UNCHANGED <<maxBits, closures, credit, hinted, subs>>

InitLive == Start(SmallBits, LiveOps, 0)

NextLive ==
    \/ \E c \in Codes, h \in Handlers : CallOn(c, h, maxBits)
    \/ \E h \in Handlers : CallRemove(h, maxBits)
    \/ \E c \in Codes, h \in Handlers : CallOnce(c, h, maxBits)
    \/ \E c \in Codes, d \in Data : EmitLive(c, d)
    \/ Rearm
    \/ ReturnLive

\* Every handler that is invoked returns.
SpecLive == InitLive /\ [][NextLive]_vars /\ WF_vars(ReturnLive)

\* =================================================== the claims' vocabulary
\* The handlers an ended emit invoked, and how often it invoked h.
InvokedBy(rec) == {rec.invoked[p].h : p \in 1 .. Len(rec.invoked)}
Times(rec, h) == Cardinality({p \in 1 .. Len(rec.invoked) : rec.invoked[p].h = h})
InvokedSeq(rec) == [p \in 1 .. Len(rec.invoked) |-> rec.invoked[p].h]

\* An emit call has just returned normally.
NormalEmit == last.op = "emit" /\ last.err = "none"

\* c1 & c2 has a set bit at a position below m.
OverlapBelow(c1, c2, m) == \E k \in 0 .. m - 1 : TestBit(c1, k) /\ TestBit(c2, k)

\* Bit i of the integer code (two's complement, sign-extended): what "code has
\* bit i set" means whatever the width of the shift.
MathBit(code, i) ==
    IF i >= WordBits - 1 THEN code < 0 ELSE (code \div (2 ^ i)) % 2 = 1

\* The bits of tab below hint that are set in code and hold h.
BitsHeld(tab, h, code, hint) ==
    {i \in 0 .. maxBits - 1 : i < hint /\ TestBit(code, i) /\ SetHas(tab[i], h)}

IsPrefix(s, t) == Len(s) <= Len(t) /\ \A p \in 1 .. Len(s) : s[p] = t[p]

\* The order in which an emit of code over the table tab, left alone, invokes
\* handlers: slot by slot in ascending bit position, each handler once.
RECURSIVE OrderFrom(_, _, _, _, _)
OrderFrom(tab, code, hint, bit, acc) ==
    IF bit >= hint \/ bit >= maxBits THEN acc
    ELSE IF TestBit(code, bit)
         THEN OrderFrom(tab, code, hint, bit + 1,
                        acc \o SelectSeq(tab[bit], LAMBDA x : ~SetHas(acc, x)))
         ELSE OrderFrom(tab, code, hint, bit + 1, acc)

\* remove(h, hint) for each handler of hs in turn, the caller going on after
\* a call that threw.
RECURSIVE RemoveEach(_, _, _)
RemoveEach(tab, hs, hint) ==
    IF hs = <<>> THEN tab
    ELSE RemoveEach(remove(tab, Head(hs), hint).tab, Tail(hs), hint)

\* remove(h, hint) for each handler of hs in turn: a call that throws ends the
\* sequence.
RECURSIVE RemoveInTurn(_, _, _)
RemoveInTurn(tab, hs, hint) ==
    IF hs = <<>> THEN tab
    ELSE LET r == remove(tab, Head(hs), hint)
         IN  IF r.err # "none" THEN r.tab ELSE RemoveInTurn(r.tab, Tail(hs), hint)

\* ------------------------------------------------------------------- C1
\* C1 as stated: after on(c, h) with the default bitsHint and no other call
\* naming h, an emit(c', data) with the default bitsHint that returns normally
\* invokes h if and only if c & c' is non-zero.
C1_OverlapDispatch ==
    \A h \in Handlers :
        (NormalEmit /\ last.hint = maxBits /\ ~last.dirty /\ subs[h].st = "one")
            => (Fn(h) \in InvokedBy(last) <=> Overlap(subs[h].code, last.code))

\* C1 amended: ... invokes h if and only if c & c' has a set bit at a position
\* below maxBits; the bits of either code at or above maxBits are ignored.
C1_OverlapBelowMaxBits ==
    \A h \in Handlers :
        (NormalEmit /\ last.hint = maxBits /\ ~last.dirty /\ subs[h].st = "one")
            => (Fn(h) \in InvokedBy(last)
                    <=> OverlapBelow(subs[h].code, last.code, maxBits))

\* An emit has invoked a handler registered under a different, overlapping
\* code while the other handler, registered too, was left out.
C1_Witness ==
    /\ NormalEmit /\ last.hint = maxBits /\ ~last.dirty
    /\ \E g, h \in Handlers :
          /\ subs[g].st = "one" /\ subs[h].st = "one"
          /\ subs[g].code # last.code /\ subs[g].code # 0
          /\ Fn(g) \in InvokedBy(last)
          /\ subs[h].code # 0 /\ Fn(h) \notin InvokedBy(last)

\* ------------------------------------------------------------------- C2
\* C2: a handler registered on two or more bits set in the published code is
\* invoked at most once by one emit call, exactly once when the call returns
\* normally and nothing was called during it, and each time with (data, code),
\* code being the whole published mask.
C2_Dedup ==
    last.op = "emit" =>
        \A h \in Handlers :
            Cardinality(BitsHeld(last.start, Fn(h), last.code, last.hint)) >= 2 =>
                /\ Times(last, Fn(h)) <= 1
                /\ (last.err = "none" /\ ~last.dirty) => Times(last, Fn(h)) = 1
                /\ \A p \in 1 .. Len(last.invoked) :
                      last.invoked[p].h = Fn(h) =>
                          last.invoked[p].args = [data |-> last.data, code |-> last.code]

\* An emit of a code with two bits set has invoked, once, a handler held by
\* both slots.
C2_Witness ==
    /\ NormalEmit /\ ~last.dirty
    /\ \E h \in Handlers :
          /\ Cardinality(BitsHeld(last.start, Fn(h), last.code, last.hint)) >= 2
          /\ Times(last, Fn(h)) = 1

C5_NeverAnError == last.err # "TypeError"

\* ------------------------------------------------------------------- C6
\* C6 as stated: removeGroup(hs, bitsHint) leaves the table that remove(h,
\* bitsHint) for each h of hs in turn leaves.
C6_GroupRemoval ==
    last.op = "removeGroup" => handlers = RemoveInTurn(last.start, last.hs, last.hint)

\* C6, every call taken alone: removeGroup(hs, bitsHint) leaves the table left
\* by the calls remove(h, bitsHint), h of hs in turn, when each of them is made
\* whether or not the one before threw.
C6_SameTableCallByCall ==
    last.op = "removeGroup" => handlers = RemoveEach(last.start, last.hs, last.hint)

\* removeGroup has removed two different handlers that were both registered.
C6_Witness ==
    /\ last.op = "removeGroup" /\ Len(last.hs) = 2 /\ last.hs[1] # last.hs[2]
    /\ ~Absent(last.start, last.hs[1]) /\ ~Absent(last.start, last.hs[2])
    /\ Absent(handlers, last.hs[1]) /\ Absent(handlers, last.hs[2])

\* ------------------------------------------------------------------- C7
\* C7: an emit that a throwing handler ended, nothing else having been called
\* during it, has invoked a non-empty initial part of its normal order, each
\* handler once, the throwing handler last; the error has reached its caller.
C7_FailFast ==
    (last.op = "emit" /\ last.err = "thrown" /\ ~last.dirty) =>
        /\ last.invoked # <<>>
        /\ IsPrefix(InvokedSeq(last), OrderFrom(last.start, last.code, last.hint, 0, <<>>))
        /\ last.nested = (stack # <<>>)

\* A handler threw while another one was still to be invoked.
C7_Witness ==
    /\ last.op = "emit" /\ last.err = "thrown" /\ ~last.dirty
    /\ Len(last.invoked) < Len(OrderFrom(last.start, last.code, last.hint, 0, <<>>))

\* ------------------------------------------------------------------- C8
\* C8 as stated: on(code, h, bitsHint) adds h to the slots i below bitsHint
\* where code has bit i set, and changes no other membership, for any maxBits.
C8_OnScoped ==
    last.op = "on" =>
        \A i \in 0 .. maxBits - 1 :
            SetOf(handlers[i]) =
                SetOf(last.start[i])
                    \cup (IF i < last.hint /\ MathBit(last.code, i) THEN {last.h} ELSE {})

C10_DocExample ==
    \A h \in Handlers :
        (NormalEmit /\ last.hint = maxBits /\ ~last.dirty /\ last.code = 0
         /\ subs[h].st = "one" /\ subs[h].code = 0)
            => Fn(h) \in InvokedBy(last)

\* ------------------------------------------------------------------ C11
\* C11: each of on, remove, removeGroup, once and emit that completes normally
\* hands back the dispatcher it was called on, whatever its arguments; a call
\* that throws hands back nothing.
Methods == {"on", "remove", "removeGroup", "removeGroupOnce", "once", "emit"}
Low(rec, h) ==
    LET held == BitsHeld(rec.start, h, rec.code, rec.hint)
    IN  CHOOSE i \in held : \A j \in held : i <= j
Place(s, h) == CHOOSE p \in 1 .. Len(s) : s[p] = h
Before(rec, g, h) ==
    \/ Low(rec, g) < Low(rec, h)
    \/ /\ Low(rec, g) = Low(rec, h)
       /\ Place(rec.start[Low(rec, g)], g) < Place(rec.start[Low(rec, g)], h)

\* The handlers the table tab holds on a bit below hint that is set in code.
Matching(tab, code, hint) ==
    UNION {SetOf(tab[i]) : i \in {j \in 0 .. maxBits - 1 : j < hint /\ TestBit(code, j)}}

\* An emit during which nothing else was called has invoked handlers it found
\* registered, none twice, by ascending lowest bit and then by place in the
\* slot; all of them, when it returned.
InOrder(rec) ==
    LET s == InvokedSeq(rec)
    IN  /\ \A p \in 1 .. Len(s) : s[p] \in Matching(rec.start, rec.code, rec.hint)
        /\ \A p, q \in 1 .. Len(s) : p < q => Before(rec, s[p], s[q])
        /\ rec.err = "none" => SetOf(s) = Matching(rec.start, rec.code, rec.hint)

\* The place of an entry in a slot is the order of adding: a step keeps the
\* entries that stay in the order they had and puts new entries behind them.
KeepsOrder(old, new) ==
    LET stay == SelectSeq(new, LAMBDA x : SetHas(old, x))
    IN  /\ stay = SelectSeq(old, LAMBDA x : SetHas(new, x))
        /\ IsPrefix(stay, new)

\* C12: within one emit handlers are invoked in ascending order of the lowest
\* published bit (below bitsHint) they are registered on, handlers sharing that
\* bit in the order in which they were added to its slot, and no handler twice.
C12_InvocationOrder ==
    [][/\ (last'.op = "emit" /\ ~last'.dirty) => InOrder(last')
       /\ \A i \in 0 .. maxBits - 1 : KeepsOrder(handlers[i], handlers'[i])]_vars

\* An emit has invoked two handlers, the first on a lower bit, and has passed
\* over the first where it stood in the slot of the second.
C12_Witness ==
    /\ NormalEmit /\ ~last.dirty /\ Len(last.invoked) = 2
    /\ LET g == last.invoked[1].h
           h == last.invoked[2].h
       IN  /\ Low(last, g) < Low(last, h)
           /\ SetHas(last.start[Low(last, h)], g)

\* ------------------------------------------------------------------ C13
\* C13 as stated: the handler given to once is invoked at most once in total,
\* also when an emit with an overlapping code is issued while its first run is
\* still in progress: no onceHandler begins a run while it is running or after
\* a run of it in which nothing was thrown.
C13_OnceUnderReentrancy ==
    \A n \in 1 .. Len(closures) :
        /\ closures[n].returned => closures[n].fired <= 1
        /\ Cardinality({k \in 1 .. Len(stack) : stack[k].running.once = n}) <= 1

\* ------------------------------------------------------------------ C14
\* The onceHandlers in a slot, in their order.
Adapters(s) == SelectSeq(s, LAMBDA x : x.once > 0)
Removals == {"remove", "removeGroup", "removeGroupOnce"}

C15_RemoveFrame ==
    last.op = "remove" =>
        \A i \in 0 .. maxBits - 1 :
            /\ SetOf(handlers[i]) =
                    SetOf(last.start[i]) \ (IF i < last.hint THEN {last.h} ELSE {})
            /\ KeepsOrder(last.start[i], handlers[i])

\* remove(h, bitsHint) with a bitsHint below maxBits has taken h out of a slot
\* that held another handler too, and has left h in a higher slot.
C15_Witness ==
    /\ last.op = "remove" /\ last.hint < maxBits
    /\ \E i, j \in 0 .. maxBits - 1 :
          /\ i < last.hint /\ SetHas(last.start[i], last.h) /\ Len(handlers[i]) > 0
          /\ j >= last.hint /\ SetHas(handlers[j], last.h)

\* ------------------------------------------------------------------ C16
\* The handlers of hs are in no slot below hint.
Removed(tab, hs, hint) ==
    \A p \in 1 .. Len(hs), i \in 0 .. maxBits - 1 : i < hint => ~SetHas(tab[i], hs[p])

\* C16 as stated: removeGroup(handlers, bitsHint) takes every handler the
\* iterable yields out of every slot below bitsHint, also when the iterable
\* can be traversed only once.
C16_AnyIterable ==
    last.op \in {"removeGroup", "removeGroupOnce"} => Removed(handlers, last.hs, last.hint)

\* C16 for a collection that yields its handlers on every traversal.
C16_Reiterable ==
    last.op = "removeGroup" => Removed(handlers, last.hs, last.hint)

\* ------------------------------------------------------------------ C17
\* C17: the table always has maxBits slots and no slot holds a handler twice;
\* on(code, h) called for a handler that the slots it names hold already
\* leaves the table as it is, every handler in its place, and calling it again
\* changes nothing; one emit invokes no handler twice; and remove(h) with the
\* default bitsHint leaves h in no slot.
C17_IdempotentMembership ==
    /\ DOMAIN handlers = 0 .. maxBits - 1
    /\ \A i \in 0 .. maxBits - 1 : Cardinality(SetOf(handlers[i])) = Len(handlers[i])
    /\ last.op = "on" =>
          /\ on(handlers, last.code, last.h, last.hint).tab = handlers
          /\ (\A i \in 0 .. maxBits - 1 :
                  (i < last.hint /\ TestBit(last.code, i)) => SetHas(last.start[i], last.h))
                => handlers = last.start
    /\ last.op = "emit" =>
          \A p, q \in 1 .. Len(last.invoked) :
              last.invoked[p].h = last.invoked[q].h => p = q
    /\ (last.op = "remove" /\ last.hint = maxBits) => Absent(handlers, last.h)

\* on was called again for a handler that stands before another one in a
\* slot, and has left it there.
C17_Witness ==
    /\ last.op = "on" /\ last.err = "none"
    /\ \E i \in 0 .. maxBits - 1 :
          /\ i < last.hint /\ TestBit(last.code, i)
          /\ Len(handlers[i]) = 2 /\ handlers[i][1] = last.h
          /\ last.start[i] = handlers[i]

\* ------------------------------------------------------------------ C18
\* C18: emit does not change the table: the step that starts an emit, and the
\* step in which a user function returns to it, leave every slot as it is (a
\* onceHandler's return is where that handler removes itself).  An emit starts
\* with nothing in its called set, whatever the emit calls before it or around
\* it have invoked: when it returns, nothing else having been called, it has
\* invoked each handler it found on a scanned bit exactly once.
C18_DedupPerEmit ==
    [][/\ (credit' # credit /\ last'.op \in {"emit", "handler"}) =>
            /\ handlers' = handlers
            /\ Len(stack') > Len(stack) => Head(stack').called = {}
       /\ (credit' = credit /\ stack # <<>> /\ Head(stack).running.once = 0) =>
            handlers' = handlers
       /\ (last'.op = "emit" /\ last'.err = "none" /\ ~last'.dirty) =>
            \A h \in Matching(last'.start, last'.code, last'.hint) :
                Times(last', h) = 1]_vars

\* A handler running in an emit has been invoked again, once, by an emit
\* called from inside it, and that emit has returned.
C18_Witness ==
    /\ NormalEmit /\ last.nested /\ stack # <<>>
    /\ Head(stack).running.once = 0
    /\ Times(last, Head(stack).running) = 1

\* ------------------------------------------------------------------ C19
\* C19 as stated: when every invoked handler returns, an emit in progress
\* returns, whatever the handlers call on the dispatcher meanwhile.
C19_EmitTerminates == (stack # <<>>) ~> (stack = <<>>)

\* ------------------------------------------------------------------ C20
\* The handlers an emit had invoked when the call it records was made; the
\* last of them made the call.
Earlier(rec) == {rec.invoked[p].h : p \in 1 .. rec.during.seen}

\* C20: emit walks the live table.  Take an emit that has returned, during
\* which one handler g made one call and nothing else was called.  When the
\* call was remove(h) for another handler h that had not been invoked yet, the
\* emit has not invoked h.  When it was on(c, h) for another handler h that was
\* in no slot, the emit has invoked h if and only if c and the published code
\* share a bit, below both bitsHints, at or above the bit the scan stood on.
C20_LiveTable ==
    LET d == last.during
    IN  (NormalEmit /\ d.err = "none" /\ d.h \notin Earlier(last)) =>
            /\ (d.op = "remove" /\ d.hint = maxBits) => d.h \notin InvokedBy(last)
            /\ (d.op = "on" /\ d.fresh) =>
                  (d.h \in InvokedBy(last) <=>
                      \E i \in d.bit .. maxBits - 1 :
                          /\ i < d.hint /\ TestBit(d.code, i)
                          /\ i < last.hint /\ TestBit(last.code, i))

\* A handler has removed another one that the emit would have invoked after
\* it, and the emit has returned without invoking that one.
C20_Witness ==
    /\ NormalEmit /\ last.during.op = "remove" /\ last.during.hint = maxBits
    /\ last.during.h \in Matching(last.start, last.code, last.hint)
    /\ last.during.h \notin InvokedBy(last)
    /\ last.invoked # <<>>

\* A handler has subscribed another one on the bit being scanned, and the emit
\* has invoked that one.
C20_SubscribedOnCurrentBit ==
    /\ NormalEmit /\ last.during.op = "on" /\ last.during.fresh
    /\ TestBit(last.during.code, last.during.bit)
    /\ \A i \in 0 .. maxBits - 1 : i # last.during.bit => ~TestBit(last.during.code, i)
    /\ last.during.h \in InvokedBy(last)

\* A handler has subscribed another one on a published bit the scan had
\* passed, and the emit has not invoked that one.
C20_SubscribedOnPassedBit ==
    /\ NormalEmit /\ last.during.op = "on" /\ last.during.fresh
    /\ \E i \in 0 .. maxBits - 1 :
          i < last.during.bit /\ TestBit(last.during.code, i) /\ TestBit(last.code, i)
    /\ last.during.h \notin InvokedBy(last)
    /\ ~Absent(handlers, last.during.h)

====
